---- MODULE Spec2Model ----
(***************************************************************************)
(* Camera Roll Cleaner (image_sorter.py): the navigation state of          *)
(* ImageSorterApp (folder_path, image_files, current_index), the file      *)
(* system it reads and changes (directories, their favorites mirrors, the  *)
(* ~/.sorter_config store) and one play_video session, step by step.       *)
(*                                                                         *)
(* A file name is a sequence of one-character strings, so that lower(),    *)
(* endswith() and sorted() are computed as Python computes them.           *)
(***************************************************************************)
EXTENDS Integers, Sequences, FiniteSets, TLC

VARIABLES
    folder_path,    \* self.folder_path
    image_files,    \* self.image_files
    current_index,  \* self.current_index
    config,         \* content of self.config_file, or NoFile
    started,        \* whether the root.after(100, load_last_folder) callback ran
    early,          \* handlers called before that callback ran
    kind,           \* file system: what each path is ("dir", "missing", "file")
    files,          \* file system: names of the children of each directory
    favs,           \* file system: names inside {path}/favorites
    shown,          \* what image_label shows: "msg", "img", "err", or "blank"
                    \*   when its -image option names a PhotoImage that is freed
    pc,             \* position of the control flow inside the handler that is
                    \*   running (a stage of play_video, an open dialog), or "idle"
    session,        \* the locals of that handler
    mixer_init,     \* whether pygame.mixer is initialised (process-wide)
    playing,        \* whether pygame.mixer.music was started and not stopped
    windows,        \* the cv2 windows that exist, by the file name in their title
    last,           \* history: the operation that ran last and its outcome
    pair,           \* history: two toggles in a row on one entry, or a toggle
                    \*          right after an external change of its mirror
    nexts           \* history: show_next_image calls in a row since index 0

vars == <<folder_path, image_files, current_index, config, started, early, kind,
          files, favs, shown, pc, session, mixer_init, playing, windows, last, pair,
          nexts>>

-----------------------------------------------------------------------------
(* Bounds of the model *)

MaxFiles == 3
MaxFrames == 2
\* Handlers the user gets called in the 100 ms before the startup callback is due
MaxEarly == 3

\* Frame rates cap.get(CAP_PROP_FPS) reports, in thousandths of a frame per second
FpsSet == {0, 29970, 2000000}

-----------------------------------------------------------------------------
(* File names and paths *)

a_jpg  == <<"a", ".", "j", "p", "g">>
b_mov  == <<"b", ".", "m", "o", "v">>
c_png  == <<"c", ".", "p", "n", "g">>
e_heic == <<"e", ".", "h", "e", "i", "c">>
f_gif  == <<"f", ".", "g", "i", "f">>
D_MOV  == <<"D", ".", "M", "O", "V">>
n_txt  == <<"n", ".", "t", "x", "t">>
mov    == <<"m", "o", "v">>
g_jpeg == <<"g", ".", "j", "p", "e", "g">>
h_bmp  == <<"h", ".", "b", "m", "p">>
a_Mov  == <<"a", ".", "M", "o", "v">>
c_png_txt == <<"c", ".", "p", "n", "g", ".", "t", "x", "t">>
dot_mov == <<".", "m", "o", "v">>

Pool == <<a_jpg, b_mov, c_png, e_heic, f_gif>>

PoolFiles == {Pool[i] : i \in 1..(IF MaxFiles < Len(Pool) THEN MaxFiles ELSE Len(Pool))}

AllNames == PoolFiles \cup {n_txt}

Paths == {"/P", "/E", "/M", "/F"}

\* The file system the application starts on: /P holds the pool's files and a
\* text file, /E no supported file; /M does not exist and /F is a regular file.
InitKind == [p \in Paths |-> IF p = "/M" THEN "missing" ELSE IF p = "/F" THEN "file" ELSE "dir"]

InitFiles ==
    [p \in Paths |-> CASE p = "/P" -> PoolFiles \cup {n_txt}
                       [] p = "/E" -> {n_txt}
                       [] OTHER -> {}]

\* ~/.sorter_config: whether the file exists, and its content as a sequence of
\* path and whitespace tokens.
NoFile == [exists |-> FALSE, content |-> <<>>]

Stored(content) == [exists |-> TRUE, content |-> content]

InitConfigs == {NoFile, Stored(<<"/P", "\n">>)}

NoIndex == -1

\* Characters in ascending code point order, as Python compares strings.
Alphabet == <<".", "D", "M", "O", "V", "a", "b", "c", "e", "f", "g", "h", "i",
              "j", "m", "n", "o", "p", "t", "v", "x">>

OrdTable ==
    [c \in {Alphabet[i] : i \in 1..Len(Alphabet)} |->
        CHOOSE i \in 1..Len(Alphabet) : Alphabet[i] = c]

\* ord(c)
Ord(c) == OrdTable[c]

\* str.lower() on one character
LowerChar(c) ==
    CASE c = "D" -> "d"
      [] c = "M" -> "m"
      [] c = "O" -> "o"
      [] c = "V" -> "v"
      [] OTHER -> c

\* str.lower()
Lower(s) == [i \in 1..Len(s) |-> LowerChar(s[i])]

\* str.endswith(suffix)
EndsWith(s, suffix) ==
    /\ Len(s) >= Len(suffix)
    /\ \A i \in 1..Len(suffix) : s[Len(s) - Len(suffix) + i] = suffix[i]

supported_extensions ==
    { <<".", "p", "n", "g">>, <<".", "j", "p", "g">>, <<".", "j", "p", "e", "g">>,
      <<".", "g", "i", "f">>, <<".", "b", "m", "p">>, <<".", "h", "e", "i", "c">>,
      <<".", "m", "o", "v">> }

\* f.lower().endswith(supported_extensions)
Supported(f) == LET lowered == Lower(f) IN \E x \in supported_extensions : EndsWith(lowered, x)

\* Mutant of IsVideo: the extension is compared as it is spelled.
IsVideo_CaseSensitive(f) == EndsWith(f, <<".", "m", "o", "v">>)

\* filename.lower().endswith('.mov')
IsVideo(f) == EndsWith(Lower(f), <<".", "m", "o", "v">>)

\* a < b on Python strings that agree before position i: the first position
\* where they differ decides by code point, and a proper prefix is less.
RECURSIVE StrLessFrom(_, _, _)
StrLessFrom(a, b, i) ==
    IF i > Len(b) THEN FALSE
    ELSE IF i > Len(a) THEN TRUE
    ELSE IF a[i] # b[i] THEN Ord(a[i]) < Ord(b[i])
    ELSE StrLessFrom(a, b, i + 1)

\* a < b on Python strings
StrLess(a, b) == StrLessFrom(a, b, 1)

\* The sorted sequence s with x put in its place
Insert(x, s) ==
    LET k == Cardinality({i \in 1..Len(s) : StrLess(s[i], x)})
    IN  SubSeq(s, 1, k) \o <<x>> \o SubSeq(s, k + 1, Len(s))

\* sorted() of a listing (the names of a directory are distinct)
RECURSIVE Sorted(_)
Sorted(S) ==
    IF S = {} THEN <<>>
    ELSE LET x == CHOOSE y \in S : TRUE
         IN  Insert(x, Sorted(S \ {x}))

\* Mutant of Scan: the extension test is made on the name as it is spelled.
Scan_CaseSensitive(listing) ==
    Sorted({f \in listing : \E x \in supported_extensions : EndsWith(f, x)})

\* sorted([f for f in os.listdir(path) if f.lower().endswith(...)])
Scan(listing) == Sorted({f \in listing : Supported(f)})

-----------------------------------------------------------------------------
(* Helpers over the file system *)

Kind(p) == IF p \in Paths THEN kind[p] ELSE "missing"

\* os.path.exists(os.path.join(p, f)) for a child f of directory p
FileExists(p, f) == Kind(p) = "dir" /\ f \in files[p]

\* The names that can be opened under path p
Listing(p) == IF Kind(p) = "dir" THEN files[p] ELSE {}

Min(a, b) == IF a < b THEN a ELSE b

\* self.image_files[self.current_index]
Current == image_files[current_index + 1]

\* the guard "self.current_index == -1 or not self.image_files"
NoCurrent == current_index = NoIndex \/ image_files = <<>>

\* list.pop(i), 0-based
Pop(s, i) == SubSeq(s, 1, i) \o SubSeq(s, i + 2, Len(s))

\* str.strip() on the tokens read from the config file
RECURSIVE LStrip(_)
LStrip(s) == IF s # <<>> /\ Head(s) = "\n" THEN LStrip(Tail(s)) ELSE s

RECURSIVE RStrip(_)
RStrip(s) == IF s # <<>> /\ s[Len(s)] = "\n" THEN RStrip(SubSeq(s, 1, Len(s) - 1)) ELSE s

Strip(s) == RStrip(LStrip(s))

-----------------------------------------------------------------------------
(* Rendering and persistence *)

\* Files whose content no decoder reads (Image.open raises, cap.read fails)
Corrupt == {c_png}

\* What display_image configures image_label with for index idx of list fs,
\* present being the names that can be opened under folder_path when it runs:
\* the message (index out of range), the preview, or the text of the exception
\* that opening or decoding the file raised.
Render(fs, idx, present) ==
    IF idx < 0 \/ idx >= Len(fs) THEN "msg"
    ELSE IF fs[idx + 1] \in present /\ fs[idx + 1] \notin Corrupt THEN "img"
    ELSE "err"

\* image_label after it is configured with want. config(image=photo, text="")
\* shows the preview. config(image=None, text=...) leaves the -image option as
\* it is (tkinter passes no option whose value is None), and
\* image_label.image = None then frees the PhotoImage the option names: after
\* a preview the label shows nothing, and the text shows only on a label that
\* never held a preview.
Label(want) ==
    IF want = "img" THEN "img"
    ELSE IF shown \in {"img", "blank"} THEN "blank"
    ELSE want

\* image_label.config(image=None, ...) on a label whose -image names a freed
\* PhotoImage raises TclError (image "pyimageN" doesn't exist).
TclError(want) == shown = "blank" /\ want # "img"

\* display_image: what image_label shows after the call
display_image(fs, idx, present) == Label(Render(fs, idx, present))

\* show_message: what image_label shows after the call
show_message == Label("msg")

\* How save_last_folder ends: the path is written; open(config_file, 'w')
\* raises; or the file is opened, which truncates it, and writing or closing
\* it raises. Both IOErrors are swallowed.
SaveOutcomes == {"ok", "open_fail", "write_fail"}

\* save_last_folder: the content of the config file after the call
save_last_folder(path, save) ==
    CASE save = "ok" -> Stored(<<path>>)
      [] save = "write_fail" -> Stored(<<>>)
      [] OTHER -> config

-----------------------------------------------------------------------------
(* History variables *)

\* An operation and its outcome; for a toggle also the entry it was about and
\* what is_favorited said before it, for an external change the entry.
\* tcl: image_label raised TclError inside the operation.
Op(op, res) == [op |-> op, res |-> res, name |-> <<>>, pre |-> FALSE, tcl |-> FALSE]

ToggleOp(res, name, pre) ==
    [op |-> "toggle", res |-> res, name |-> name, pre |-> pre, tcl |-> FALSE]

NoPair == [set |-> FALSE, pre |-> FALSE, first |-> "", second |-> ""]

\* showerror: the handler of line 470 was entered and its dialog (line 471)
\* is open or was closed. inner_dialog: another message box was opened and
\* closed inside the askyesno dialog of line 554.
NoSession ==
    [filename |-> <<>>, delay |-> 0, frame |-> 0, cap_open |-> FALSE,
     audio_temp_file |-> FALSE, temp_exists |-> FALSE,
     has_audio |-> FALSE, audio |-> "", exit |-> "",
     returncode |-> -1, getsize |-> 0, q_pressed |-> FALSE, showerror |-> FALSE,
     inner_dialog |-> FALSE, image_path |-> <<"", <<>>>>]

\* The count of show_next_image calls in a row restarts after any other operation.
NextsAfterOther == IF image_files' # <<>> /\ current_index' = 0 THEN 0 ELSE -1

\* The Tk main loop is ready for a user event: no handler is running, and
\* before the startup callback, due 100 ms after construction, there is time
\* for MaxEarly of them.
Idle == pc = "idle" /\ (started \/ early < MaxEarly)

\* A handler is called.
HandlerBegins == early' = IF started THEN early ELSE early + 1

-----------------------------------------------------------------------------
(* Loading a directory *)

\* Whether image_label raises TclError inside load_images_from_path(path),
\* read off the list and the index the call leaves
LoadTcl(path) ==
    CASE Kind(path) = "missing" -> TclError("msg")
      [] Kind(path) = "dir" -> TclError(Render(image_files', current_index', files[path]))
      [] OTHER -> FALSE

\* Outcome of load_images_from_path(path), read off the state it leaves:
\* "unrendered" is a load that display_image left by TclError, before
\* save_last_folder; "unsaved" one whose write of the config file failed.
LoadResult(path, save) ==
    IF Kind(path) # "dir" THEN "fail"
    ELSE IF image_files' = <<>> THEN "empty"
    ELSE IF LoadTcl(path) THEN "unrendered"
    ELSE IF save = "ok" THEN "ok"
    ELSE "unsaved"

\* The index load_images_from_path sets for a listing (lines 202-207)
LoadIndex(listing) == IF listing = <<>> THEN NoIndex ELSE 0

\* load_images_from_path, from its first line to its last with nothing running
\* in between. os.listdir raises FileNotFoundError on a missing path (caught:
\* message, return) and NotADirectoryError on a regular file (not caught here:
\* the handler ends there). A TclError of display_image ends the call before
\* save_last_folder.
load_images_from_path(path, save) ==
    /\ folder_path' = path
    /\ IF Kind(path) # "dir"
       THEN /\ UNCHANGED <<image_files, current_index, config>>
            /\ shown' = IF Kind(path) = "missing" THEN show_message ELSE shown
       ELSE /\ image_files' = Scan(files[path])
            /\ current_index' = LoadIndex(image_files')
            /\ IF image_files' = <<>>
               THEN /\ shown' = show_message
                    /\ UNCHANGED config
               ELSE /\ shown' = display_image(image_files', 0, files[path])
                    /\ config' = IF LoadTcl(path) THEN config
                                  ELSE save_last_folder(path, save)
    /\ nexts' = NextsAfterOther
    /\ pair' = NoPair
    /\ UNCHANGED <<kind, files, favs, pc, mixer_init, playing, windows>>

\* select_folder, with the path the dialog returned. messagebox.showinfo
\* (line 203) runs the Tk event loop until it is closed: while the startup
\* callback is pending the call stops there, folder_path and image_files
\* assigned, current_index not yet.
SelectFolder(path, save) ==
    /\ Idle
    /\ HandlerBegins
    /\ IF ~started /\ Kind(path) = "dir" /\ Scan(files[path]) = <<>>
       THEN /\ folder_path' = path
            /\ image_files' = <<>>
            /\ pc' = "showinfo"
            /\ last' = Op("load", "showinfo")
            /\ nexts' = NextsAfterOther
            /\ pair' = NoPair
            /\ UNCHANGED <<current_index, config, kind, files, favs, shown, session,
                           mixer_init, playing, windows>>
       ELSE /\ load_images_from_path(path, save)
            /\ last' = [Op("load", LoadResult(path, save)) EXCEPT !.tcl = LoadTcl(path)]
            /\ UNCHANGED session
    /\ UNCHANGED started

\* The dialog of line 203 is closed: lines 204-205.
ShowInfoClosed ==
    /\ pc = "showinfo"
    /\ pc' = "idle"
    /\ current_index' = NoIndex
    /\ shown' = show_message
    /\ last' = [Op("load", "empty") EXCEPT !.tcl = TclError("msg")]
    /\ UNCHANGED <<folder_path, image_files, config, started, early, kind, files,
                   favs, session, mixer_init, playing, windows>>
    /\ nexts' = NextsAfterOther
    /\ pair' = NoPair

\* last_folder = f.read().strip(), as a path ("" when empty, "?" when the text
\* is no single path)
LastFolder(content) ==
    IF Strip(content) = <<>> THEN ""
    ELSE IF Len(Strip(content)) = 1 THEN Strip(content)[1]
    ELSE "?"

\* The Tk event loop runs: the main loop, or the loop of a dialog that a
\* handler waits in (lines 203, 554, 471). The dialogs a handler opens as its
\* last statement (lines 400, 482, 510, 548, 572) leave nothing to do after
\* them: what runs inside them runs as after the handler.
EventLoop ==
    \/ pc \in {"idle", "showinfo", "askyesno"}
    \/ pc = "returned" /\ session.showerror

\* How open(config_file, 'r') and f.read() of lines 223-224 end: "ok";
\* "io_error", an IOError (no permission, a directory in the file's place),
\* which line 227 catches; "decode_error", the bytes of the file are no text
\* in the encoding it is opened with and f.read() raises UnicodeDecodeError,
\* a ValueError, which line 227 does not catch.
ReadOutcomes == {"ok", "io_error", "decode_error"}

\* Outcome of load_last_folder when it does not load: "skip" when there is no
\* file or it names no directory, "unreadable" when the IOError was caught,
\* "undecodable" when UnicodeDecodeError left the callback.
NoLoadResult(read) ==
    IF ~config.exists THEN "skip"
    ELSE IF read = "io_error" THEN "unreadable"
    ELSE IF read = "decode_error" THEN "undecodable"
    ELSE "skip"

\* load_last_folder, run once by root.after(100, ...), from the main loop or
\* from the event loop of a dialog a handler has open; read is how reading
\* the config file ends. Its outcome is that of the load, or NoLoadResult.
\* A load of a directory without supported files opens the dialog of line
\* 203; when that happens inside the askyesno dialog of line 554, closing it
\* also ends the askyesno, which then answers False.
LoadLastFolder(read, save) ==
    /\ EventLoop
    /\ ~started
    /\ started' = TRUE
    /\ early' = 0
    /\ IF config.exists /\ read = "ok" /\ LastFolder(config.content) # ""
          /\ Kind(LastFolder(config.content)) = "dir"
       THEN /\ load_images_from_path(LastFolder(config.content), save)
            /\ session' = IF pc = "askyesno" /\ image_files' = <<>>
                           THEN [session EXCEPT !.inner_dialog = TRUE]
                           ELSE session
            /\ last' = [Op("startup", LoadResult(LastFolder(config.content), save))
                            EXCEPT !.tcl = LoadTcl(LastFolder(config.content))]
       ELSE /\ UNCHANGED <<folder_path, image_files, current_index, config, kind,
                           files, favs, shown, pc, session, mixer_init, playing, windows>>
            /\ last' = Op("startup", NoLoadResult(read))
            /\ nexts' = NextsAfterOther
            /\ pair' = NoPair

-----------------------------------------------------------------------------
(* Navigation *)

\* Whether display_image raises TclError after the index moved to idx
MoveTcl(idx) ==
    idx # current_index /\ TclError(Render(image_files, idx, Listing(folder_path)))

\* Mutant of NextIndex: wrap around to the first entry after the last.
NextIndex_Wrap(idx, n) == IF n > 0 THEN (idx + 1) % n ELSE idx

\* show_next_image: the index after the call, n the length of image_files
NextIndex(idx, n) == IF n > 0 /\ idx < n - 1 THEN idx + 1 ELSE idx

\* show_prev_image: the index after the call
PrevIndex(idx, n) == IF n > 0 /\ idx > 0 THEN idx - 1 ELSE idx

ShowNextImage ==
    /\ Idle
    /\ HandlerBegins
    /\ current_index' = NextIndex(current_index, Len(image_files))
    /\ shown' = IF current_index' # current_index
                THEN display_image(image_files, current_index', Listing(folder_path))
                ELSE shown
    /\ last' = [Op("next", IF current_index' # current_index THEN "moved" ELSE "stay")
                    EXCEPT !.tcl = MoveTcl(current_index')]
    /\ UNCHANGED <<folder_path, image_files, config, started, kind, files, favs,
                   pc, session, mixer_init, playing, windows>>
    /\ nexts' = IF nexts >= 0 THEN Min(nexts + 1, Len(image_files)) ELSE -1
    /\ pair' = NoPair

ShowPrevImage ==
    /\ Idle
    /\ HandlerBegins
    /\ current_index' = PrevIndex(current_index, Len(image_files))
    /\ shown' = IF current_index' # current_index
                THEN display_image(image_files, current_index', Listing(folder_path))
                ELSE shown
    /\ last' = [Op("prev", IF current_index' # current_index THEN "moved" ELSE "stay")
                    EXCEPT !.tcl = MoveTcl(current_index')]
    /\ UNCHANGED <<folder_path, image_files, config, started, kind, files, favs,
                   pc, session, mixer_init, playing, windows>>
    /\ nexts' = NextsAfterOther
    /\ pair' = NoPair

-----------------------------------------------------------------------------
(* Deleting the current file *)

\* The index after image_files.pop(current_index), n the length after the pop
IndexAfterPop(idx, n) == IF idx >= n /\ n > 0 THEN idx - 1 ELSE idx

\* Outcome of lines 559-572 for the path path/name read at lines 551-552;
\* rmOk is whether os.remove is permitted. "pop_error": the file is removed
\* and pop raises IndexError on the empty list.
RemoveResult(path, name, is_sure, rmOk) ==
    IF ~is_sure THEN "declined"
    ELSE IF ~(FileExists(path, name) /\ rmOk) THEN "error"
    ELSE IF image_files = <<>> THEN "pop_error"
    ELSE "ok"

\* Outcome of delete_current_image when nothing runs inside its dialog
DeleteResult(is_sure, rmOk) ==
    IF NoCurrent THEN "noop"
    ELSE RemoveResult(folder_path, Current, is_sure, rmOk)

\* Mutant of remove_and_pop: the mirror in favorites is removed with the file.
remove_and_pop_WithMirror(path, name, is_sure, rmOk) ==
    /\ files' = IF RemoveResult(path, name, is_sure, rmOk) \in {"ok", "pop_error"}
                THEN [files EXCEPT ![path] = @ \ {name}]
                ELSE files
    /\ favs' = IF RemoveResult(path, name, is_sure, rmOk) \in {"ok", "pop_error"}
               THEN [favs EXCEPT ![path] = @ \ {name}]
               ELSE favs
    /\ IF RemoveResult(path, name, is_sure, rmOk) = "ok"
       THEN /\ image_files' = Pop(image_files, current_index)
            /\ current_index' = IndexAfterPop(current_index, Len(image_files'))
            /\ shown' = IF image_files' # <<>>
                        THEN display_image(image_files', current_index',
                                           IF Kind(folder_path) = "dir"
                                           THEN files'[folder_path] ELSE {})
                        ELSE show_message
       ELSE UNCHANGED <<image_files, current_index, shown>>

\* Lines 559-570 after the answer is_sure: os.remove of the path read before
\* the dialog, pop of the index as it is now, the index stepped back, the
\* next entry or the message rendered, from the directory as os.remove left it.
remove_and_pop(path, name, is_sure, rmOk) ==
    /\ files' = IF RemoveResult(path, name, is_sure, rmOk) \in {"ok", "pop_error"}
                THEN [files EXCEPT ![path] = @ \ {name}]
                ELSE files
    /\ favs' = favs
    /\ IF RemoveResult(path, name, is_sure, rmOk) = "ok"
       THEN /\ image_files' = Pop(image_files, current_index)
            /\ current_index' = IndexAfterPop(current_index, Len(image_files'))
            /\ shown' = IF image_files' # <<>>
                        THEN display_image(image_files', current_index',
                                           IF Kind(folder_path) = "dir"
                                           THEN files'[folder_path] ELSE {})
                        ELSE show_message
       ELSE UNCHANGED <<image_files, current_index, shown>>

\* Whether the render after the pop raises TclError; line 571 catches it and
\* reports that the file could not be deleted.
DeleteTcl(res) ==
    /\ res = "ok"
    /\ TclError(IF image_files' # <<>>
                THEN Render(image_files', current_index',
                            IF Kind(folder_path) = "dir" THEN files'[folder_path] ELSE {})
                ELSE "msg")

\* delete_current_image. messagebox.askyesno (line 554) runs the Tk event loop
\* until it is answered: while the startup callback is pending the call stops
\* there, filename and image_path read.
DeleteCurrentImage(is_sure, rmOk) ==
    /\ Idle
    /\ HandlerBegins
    /\ IF NoCurrent
       THEN /\ UNCHANGED <<files, favs, image_files, current_index, shown, pc, session>>
            /\ last' = Op("delete", "noop")
       ELSE IF ~started
       THEN /\ pc' = "askyesno"
            /\ session' = [NoSession EXCEPT !.image_path = <<folder_path, Current>>]
            /\ UNCHANGED <<files, favs, image_files, current_index, shown>>
            /\ last' = Op("delete", "askyesno")
       ELSE /\ remove_and_pop(folder_path, Current, is_sure, rmOk)
            /\ UNCHANGED <<pc, session>>
            /\ last' = [Op("delete", DeleteResult(is_sure, rmOk))
                            EXCEPT !.name = Current,
                                   !.tcl = DeleteTcl(DeleteResult(is_sure, rmOk))]
    /\ UNCHANGED <<folder_path, config, started, kind, mixer_init, playing, windows>>
    /\ nexts' = NextsAfterOther
    /\ pair' = NoPair

\* The dialog of line 554 is answered: lines 559-572. After a message box
\* that was opened and closed inside it the answer is False, whatever is
\* clicked.
AskYesNoAnswered(is_sure, rmOk) ==
    /\ pc = "askyesno"
    /\ session.inner_dialog => ~is_sure
    /\ pc' = "idle"
    /\ session' = NoSession
    /\ remove_and_pop(session.image_path[1], session.image_path[2], is_sure, rmOk)
    /\ last' = [Op("delete", RemoveResult(session.image_path[1], session.image_path[2],
                                           is_sure, rmOk))
                    EXCEPT !.name = session.image_path[2],
                           !.tcl = DeleteTcl(RemoveResult(session.image_path[1],
                                                          session.image_path[2],
                                                          is_sure, rmOk))]
    /\ UNCHANGED <<folder_path, config, started, early, kind, mixer_init, playing, windows>>
    /\ nexts' = NextsAfterOther
    /\ pair' = NoPair

-----------------------------------------------------------------------------
(* Favorites *)

\* Mutant of is_favorited: membership is remembered from before the change
\* another program made.
is_favorited_Cached(filename) ==
    IF last.op = "external" /\ last.name = filename
    THEN last.res = "remove"
    ELSE Kind(folder_path) = "dir" /\ filename \in favs[folder_path]

\* is_favorited(filename): os.path.exists(folder_path/favorites/filename)
is_favorited(filename) == Kind(folder_path) = "dir" /\ filename \in favs[folder_path]

\* How the file system answers the call of add_to_favorites that writes:
\* "ok"; "fail", it is refused (os.remove, os.makedirs, or opening the
\* destination of shutil.copy2); "partial", shutil.copy2 raises after it has
\* created the destination (the disk fills up, copystat is refused).
IoOutcomes == {"ok", "fail", "partial"}

\* Mutant of ToggleResult: the mirror is copied again instead of removed.
ToggleResult_AlwaysCopy(io) ==
    IF NoCurrent THEN "noop"
    ELSE IF Kind(folder_path) = "dir" /\ io = "ok" /\ Current \in files[folder_path]
    THEN "copy"
    ELSE "error"

\* Outcome of add_to_favorites: "error" is the exception that line 509 catches.
\* os.remove either removes the mirror or is refused.
ToggleResult(io) ==
    IF NoCurrent THEN "noop"
    ELSE IF is_favorited(Current) THEN (IF io = "fail" THEN "error" ELSE "remove")
    ELSE IF Kind(folder_path) = "dir" /\ io = "ok" /\ Current \in files[folder_path]
    THEN "copy"
    ELSE "error"

\* Whether add_to_favorites leaves the mirror of the current entry in
\* favorites: it did not exist, and shutil.copy2 opened its source (line 502)
\* and created it, whether or not it then raised.
MirrorCreated(io) ==
    /\ ~NoCurrent
    /\ ~is_favorited(Current)
    /\ Kind(folder_path) = "dir"
    /\ Current \in files[folder_path]
    /\ io \in {"ok", "partial"}

\* Mutant of AddToFavorites: the toggle of a current entry also moves on to the
\* next one.
AddToFavorites_Advance(io) ==
    /\ Idle
    /\ HandlerBegins
    /\ ~NoCurrent
    /\ favs' = IF ToggleResult(io) = "remove"
               THEN [favs EXCEPT ![folder_path] = @ \ {Current}]
               ELSE IF MirrorCreated(io)
               THEN [favs EXCEPT ![folder_path] = @ \cup {Current}]
               ELSE favs
    /\ current_index' = NextIndex(current_index, Len(image_files))
    /\ UNCHANGED <<folder_path, image_files, config, started, kind, files, shown,
                   pc, session, mixer_init, playing, windows>>
    /\ last' = ToggleOp(ToggleResult(io), Current, is_favorited(Current))
    /\ pair' = NoPair
    /\ nexts' = NextsAfterOther

\* add_to_favorites. On a missing folder_path os.makedirs creates the directory
\* (and favorites in it) before shutil.copy2 fails on the missing source.
AddToFavorites(io) ==
    /\ Idle
    /\ HandlerBegins
    /\ favs' = IF ToggleResult(io) = "remove"
               THEN [favs EXCEPT ![folder_path] = @ \ {Current}]
               ELSE IF MirrorCreated(io)
               THEN [favs EXCEPT ![folder_path] = @ \cup {Current}]
               ELSE favs
    /\ kind' = IF ~NoCurrent /\ ~is_favorited(Current) /\ io # "fail"
                  /\ folder_path \in Paths /\ Kind(folder_path) = "missing"
               THEN [kind EXCEPT ![folder_path] = "dir"]
               ELSE kind
    /\ UNCHANGED <<folder_path, image_files, current_index, config, started, files,
                   shown, pc, session, mixer_init, playing, windows>>
    /\ last' = IF NoCurrent THEN Op("toggle", "noop")
               ELSE ToggleOp(ToggleResult(io), Current, is_favorited(Current))
    /\ pair' = IF /\ ToggleResult(io) \in {"copy", "remove"}
                  /\ last.op = "toggle"
                  /\ last.res \in {"copy", "remove"}
                  /\ last.name = Current
               THEN [set |-> TRUE, pre |-> last.pre, first |-> last.res,
                     second |-> ToggleResult(io)]
               ELSE IF ~NoCurrent /\ last.op = "external" /\ last.name = Current
               THEN [set |-> FALSE, pre |-> is_favorited(Current), first |-> "external",
                     second |-> ToggleResult(io)]
               ELSE NoPair
    /\ nexts' = NextsAfterOther

\* Another program adds or removes the mirror favorites/{name} of a listed file
\* of the active directory.
ExternalFavorite(name) ==
    /\ pc = "idle"
    /\ Kind(folder_path) = "dir"
    /\ name \in files[folder_path]
    /\ \E i \in 1..Len(image_files) : image_files[i] = name
    /\ favs' = [favs EXCEPT ![folder_path] =
                    IF name \in @ THEN @ \ {name} ELSE @ \cup {name}]
    /\ UNCHANGED <<folder_path, image_files, current_index, config, started, early,
                   kind, files, shown, pc, session, mixer_init, playing, windows>>
    /\ last' = [Op("external", IF name \in favs[folder_path] THEN "remove" ELSE "add")
                    EXCEPT !.name = name]
    /\ pair' = NoPair
    /\ nexts' = NextsAfterOther

-----------------------------------------------------------------------------
(* play_video, one step per stage *)

DefaultFps == 30

\* delay = int(1000 / fps), fps given in thousandths and 0 replaced by 30
Delay(fps) == (1000 * 1000) \div (IF fps = 0 THEN DefaultFps * 1000 ELSE fps)

\* Outcome of the guards and of cv2.VideoCapture(file_path)
PlayResult(opened) ==
    IF NoCurrent THEN "noop"
    ELSE IF ~IsVideo(Current) THEN "not_video"
    ELSE IF opened /\ FileExists(folder_path, Current) THEN "opened"
    ELSE "cannot_open"

\* How lines 409-412 end: the window is created and sized, or
\* cv2.namedWindow raises, or cv2.resizeWindow raises on the window created.
WindowOutcomes == {"ok", "named_raises", "resize_raises"}

\* Lines 386-412: the guards, opening the capture, the frame interval, the
\* window. What lines 409-412 raise is caught at line 470: the dialog of line
\* 471 opens with the capture open. cv2.namedWindow on a name that has a
\* window leaves that window.
PlayVideo(opened, fps, win) ==
    /\ Idle
    /\ HandlerBegins
    /\ IF PlayResult(opened) = "opened"
       THEN /\ pc' = IF win = "ok" THEN "audio" ELSE "returned"
            /\ session' = [NoSession EXCEPT !.filename = Current,
                                            !.delay = Delay(fps),
                                            !.cap_open = TRUE,
                                            !.showerror = win # "ok"]
            /\ windows' = IF win = "named_raises" THEN windows
                          ELSE windows \cup {Current}
       ELSE UNCHANGED <<pc, session, windows>>
    /\ UNCHANGED <<folder_path, image_files, current_index, config, started, kind,
                   files, favs, shown, mixer_init, playing>>
    /\ last' = Op("play", PlayResult(opened))
    /\ pair' = NoPair
    /\ nexts' = NextsAfterOther

\* Mutant of HasAudio: the exit status of ffmpeg is not looked at.
HasAudio_AnyExit(rc, exists, size) == exists /\ size > 0

\* has_audio = result.returncode == 0 and os.path.exists(audio_path)
\*             and os.path.getsize(audio_path) > 0
HasAudio(rc, exists, size) == rc = 0 /\ exists /\ size > 0

\* How lines 434-435 end: music is loaded and started, or
\* pygame.mixer.music.load raises, or pygame.mixer.music.play raises.
MusicOutcomes == {"ok", "load_raises", "play_raises"}

\* How the audio block (lines 415-439) ends: the call that raised, or what
\* has_audio came to. pygame.mixer.init does nothing on an initialised mixer.
AudioOutcome(mixerOk, tempOk, runOk, rc, size, music) ==
    IF ~mixerOk /\ ~mixer_init THEN "mixer_fail"
    ELSE IF ~tempOk THEN "temp_fail"
    ELSE IF ~runOk THEN "run_raise"
    ELSE IF ~HasAudio(rc, TRUE, size) THEN "no_audio"
    ELSE IF music = "load_raises" THEN "load_fail"
    ELSE IF music = "play_raises" THEN "play_fail"
    ELSE "playing"

\* Mutant of AfterAudio: a missing ffmpeg (FileNotFoundError) is not caught by
\* the audio block and ends the session in the outer handler.
AfterAudio_Abort(outcome) == IF outcome = "run_raise" THEN "returned" ELSE "loop"

\* Where control goes after the audio block: "except Exception" (line 437)
\* catches whatever the block raises, so the frame loop follows every outcome.
AfterAudio(outcome) == "loop"

\* Lines 415-439: mixer.init, the temporary file, ffmpeg, music.load and play;
\* every exception of the block is caught and sets has_audio = False. Music
\* that an earlier session left playing plays on unless music.load replaces
\* it: load frees the music it holds once the new file is loaded.
PlayAudio(mixerOk, tempOk, runOk, rc, size, music) ==
    /\ pc = "audio"
    /\ pc' = AfterAudio(AudioOutcome(mixerOk, tempOk, runOk, rc, size, music))
    /\ mixer_init' = (mixer_init \/ AudioOutcome(mixerOk, tempOk, runOk, rc, size, music) # "mixer_fail")
    /\ playing' = CASE AudioOutcome(mixerOk, tempOk, runOk, rc, size, music) = "playing" -> TRUE
                    [] AudioOutcome(mixerOk, tempOk, runOk, rc, size, music) = "play_fail" -> FALSE
                    [] OTHER -> playing
    /\ session' = [session EXCEPT
            !.audio = AudioOutcome(mixerOk, tempOk, runOk, rc, size, music),
            !.audio_temp_file = AudioOutcome(mixerOk, tempOk, runOk, rc, size, music)
                                   \notin {"mixer_fail", "temp_fail"},
            !.temp_exists = AudioOutcome(mixerOk, tempOk, runOk, rc, size, music)
                               \notin {"mixer_fail", "temp_fail"},
            !.returncode = IF AudioOutcome(mixerOk, tempOk, runOk, rc, size, music)
                                 \in {"no_audio", "load_fail", "play_fail", "playing"}
                           THEN rc ELSE @,
            !.getsize = IF AudioOutcome(mixerOk, tempOk, runOk, rc, size, music)
                              \in {"no_audio", "load_fail", "play_fail", "playing"}
                        THEN size ELSE @,
            !.has_audio = AudioOutcome(mixerOk, tempOk, runOk, rc, size, music) = "playing"]
    /\ UNCHANGED <<folder_path, image_files, current_index, config, started, early,
                   kind, files, favs, shown, windows, last, pair, nexts>>

\* Mutant of FrameResult: any key ends the playback.
FrameResult_AnyKey(ret, raises, key, closed) ==
    IF ~ret THEN "eos"
    ELSE IF raises THEN "exception"
    ELSE IF key # "none" THEN "quit"
    ELSE IF closed THEN "closed"
    ELSE "frame"

\* How one iteration of the frame loop (lines 442-452) ends. ret: cap.read()
\* returned a frame; raises: a cv2 call of the iteration raises; key: what
\* cv2.waitKey(delay) returns ("none" when the interval passes); closed: the
\* window is no longer visible.
FrameResult(ret, raises, key, closed) ==
    IF ~ret THEN "eos"
    ELSE IF raises THEN "exception"
    ELSE IF key = "q" THEN "quit"
    ELSE IF closed THEN "closed"
    ELSE "frame"

\* One iteration of the loop. A source holds at most MaxFrames frames, and
\* cv2.waitKey(0) returns only when a key is pressed. What the iteration
\* raises is caught at line 470: the dialog of line 471 opens.
PlayFrame(ret, raises, key, closed) ==
    /\ pc = "loop"
    /\ ret => session.frame < MaxFrames
    /\ (ret /\ ~raises /\ session.delay = 0) => key # "none"
    /\ pc' = CASE FrameResult(ret, raises, key, closed) = "frame" -> "loop"
               [] FrameResult(ret, raises, key, closed) = "exception" -> "returned"
               [] OTHER -> "cleanup"
    /\ session' = [session EXCEPT
            !.frame = IF FrameResult(ret, raises, key, closed) \in {"eos", "exception"}
                      THEN @ ELSE @ + 1,
            !.q_pressed = IF ret /\ ~raises THEN key = "q" ELSE @,
            !.showerror = FrameResult(ret, raises, key, closed) = "exception",
            !.exit = IF FrameResult(ret, raises, key, closed) = "frame"
                     THEN @ ELSE FrameResult(ret, raises, key, closed)]
    /\ windows' = IF ret /\ ~raises /\ closed THEN windows \ {session.filename}
                  ELSE windows
    /\ UNCHANGED <<folder_path, image_files, current_index, config, started, early,
                   kind, files, favs, shown, mixer_init, playing, last, pair, nexts>>

\* Lines 454-468: cap.release, destroyWindow, music.stop and mixer.quit when
\* has_audio, os.unlink of the temporary file (its failure is swallowed).
\* When cv2.destroyWindow raises (destroyOk false), lines 458-468 are skipped
\* and the dialog of line 471 opens.
PlayCleanup(unlinkOk, destroyOk) ==
    /\ pc = "cleanup"
    /\ pc' = "returned"
    /\ mixer_init' = IF destroyOk /\ session.has_audio THEN FALSE ELSE mixer_init
    /\ playing' = IF destroyOk /\ session.has_audio THEN FALSE ELSE playing
    /\ windows' = IF destroyOk THEN windows \ {session.filename} ELSE windows
    /\ session' = [session EXCEPT
            !.cap_open = FALSE,
            !.showerror = ~destroyOk,
            !.temp_exists = IF destroyOk /\ session.audio_temp_file /\ @ /\ unlinkOk
                            THEN FALSE ELSE @]
    /\ UNCHANGED <<folder_path, image_files, current_index, config, started, early,
                   kind, files, favs, shown, last, pair, nexts>>

\* play_video returns to the Tk main loop, the dialog of line 471 closed if it
\* was open; its locals are gone, and with them the capture.
PlayReturn ==
    /\ pc = "returned"
    /\ pc' = "idle"
    /\ session' = NoSession
    /\ last' = Op("play", "returned")
    /\ UNCHANGED <<folder_path, image_files, current_index, config, started, early,
                   kind, files, favs, shown, mixer_init, playing, windows, pair, nexts>>

-----------------------------------------------------------------------------
(* The application *)

\* __init__ (lines 46-48) on the starting file system
Init ==
    /\ folder_path = ""
    /\ image_files = <<>>
    /\ current_index = NoIndex
    /\ config \in InitConfigs
    /\ started = FALSE
    /\ early = 0
    /\ kind = InitKind
    /\ files = InitFiles
    /\ favs = [p \in Paths |-> {}]
    /\ shown = "msg"
    /\ pc = "idle"
    /\ session = NoSession
    /\ mixer_init = FALSE
    /\ playing = FALSE
    /\ windows = {}
    /\ last = Op("init", "")
    /\ pair = NoPair
    /\ nexts = -1

Keys == {"none", "q", "other"}

\* Paths the folder dialog hands to load_images_from_path: a directory, and,
\* typed into its entry, a path that does not exist or a regular file.
DialogPaths == Paths

\* The handlers that load, step and delete, the startup callback and the
\* dialogs they wait in
Browse ==
    \/ \E path \in DialogPaths, save \in SaveOutcomes : SelectFolder(path, save)
    \/ \E read \in ReadOutcomes, save \in SaveOutcomes : LoadLastFolder(read, save)
    \/ ShowInfoClosed
    \/ ShowNextImage
    \/ ShowPrevImage
    \/ \E is_sure \in BOOLEAN, rmOk \in BOOLEAN : DeleteCurrentImage(is_sure, rmOk)
    \/ \E is_sure \in BOOLEAN, rmOk \in BOOLEAN : AskYesNoAnswered(is_sure, rmOk)

\* The handler that marks, and the other program
Mark ==
    \/ \E io \in IoOutcomes : AddToFavorites(io)
    \/ \E name \in AllNames : ExternalFavorite(name)

Navigate == Browse \/ Mark

\* play_video, stage by stage
Playback ==
    \/ \E opened \in BOOLEAN, fps \in FpsSet, win \in WindowOutcomes :
            PlayVideo(opened, fps, win)
    \/ \E mixerOk \in BOOLEAN, tempOk \in BOOLEAN, runOk \in BOOLEAN, rc \in {0, 1},
          size \in {0, 1}, music \in MusicOutcomes :
            PlayAudio(mixerOk, tempOk, runOk, rc, size, music)
    \/ \E ret \in BOOLEAN, raises \in BOOLEAN, key \in Keys, closed \in BOOLEAN :
            PlayFrame(ret, raises, key, closed)
    \/ \E unlinkOk \in BOOLEAN, destroyOk \in BOOLEAN : PlayCleanup(unlinkOk, destroyOk)
    \/ PlayReturn

Next == Navigate \/ Playback

Spec == Init /\ [][Next]_vars

\* The application as long as nothing is marked and no video is played
SpecBrowse == Init /\ [][Browse]_vars

\* Marking: /P or the missing /M is selected, the entries are stepped through,
\* deleted and marked, another program changes the mirrors, and the startup
\* callback runs in between or inside a dialog.
NextFav ==
    \/ \E path \in {"/P", "/M", "/E"}, save \in SaveOutcomes : SelectFolder(path, save)
    \/ \E save \in SaveOutcomes : LoadLastFolder("ok", save)
    \/ ShowInfoClosed
    \/ ShowNextImage
    \/ ShowPrevImage
    \/ \E is_sure \in BOOLEAN, rmOk \in BOOLEAN : DeleteCurrentImage(is_sure, rmOk)
    \/ \E is_sure \in BOOLEAN, rmOk \in BOOLEAN : AskYesNoAnswered(is_sure, rmOk)
    \/ Mark

SpecFav == Init /\ [][NextFav]_vars

-----------------------------------------------------------------------------
(* Listing a directory of any content *)

\* Names a directory may hold: every supported extension, upper and mixed
\* case, an extension that is not at the end, a name without a dot, a name
\* that is nothing but an extension.
ScanNames ==
    {a_jpg, b_mov, c_png, e_heic, f_gif, g_jpeg, h_bmp, D_MOV, a_Mov, n_txt, mov,
     c_png_txt, dot_mov}

\* The application after startup without a config file, /P holding any
\* MaxFiles + 1 or fewer of the names.
InitScan ==
    /\ folder_path = ""
    /\ image_files = <<>>
    /\ current_index = NoIndex
    /\ config = NoFile
    /\ started = TRUE
    /\ early = 0
    /\ kind = InitKind
    /\ files \in {[InitFiles EXCEPT !["/P"] = S] :
                    S \in {T \in SUBSET ScanNames : Cardinality(T) <= MaxFiles + 1}}
    /\ favs = [p \in Paths |-> {}]
    /\ shown = "msg"
    /\ pc = "idle"
    /\ session = NoSession
    /\ mixer_init = FALSE
    /\ playing = FALSE
    /\ windows = {}
    /\ last = Op("init", "")
    /\ pair = NoPair
    /\ nexts = -1

\* The folder is selected, and selected again.
NextScan == \E save \in {"ok", "open_fail"} : SelectFolder("/P", save)

SpecScan == InitScan /\ [][NextScan]_vars

-----------------------------------------------------------------------------
(* Playing the entries of a small directory of any content *)

\* An image and videos whose extension is spelled in lower, upper and mixed
\* case, one of them with nothing before the extension
PlayNames == {a_jpg, b_mov, D_MOV, a_Mov, dot_mov}

\* The application after startup, /P holding at most two of the names.
InitPlay ==
    /\ InitScan
    /\ files["/P"] \subseteq PlayNames
    /\ Cardinality(files["/P"]) <= 2

\* The folder is selected, its entries are stepped through, marked, deleted
\* and played.
NextPlay ==
    \/ SelectFolder("/P", "ok")
    \/ ShowNextImage
    \/ ShowPrevImage
    \/ DeleteCurrentImage(TRUE, TRUE)
    \/ \E io \in IoOutcomes : AddToFavorites(io)
    \/ Playback

SpecPlay == InitPlay /\ [][NextPlay]_vars

-----------------------------------------------------------------------------
(* The config file: every content at startup, every way a save ends *)

\* What ~/.sorter_config may hold when the application starts: no file, no
\* text, white space, a directory with files (bare and with line ends around
\* it), a directory without supported files, a path that is gone, a regular
\* file, and text that is no single path.
StoreConfigs ==
    {NoFile, Stored(<<>>), Stored(<<"\n">>), Stored(<<"/P">>),
     Stored(<<"\n", "/P", "\n">>), Stored(<<"/E">>), Stored(<<"/M">>),
     Stored(<<"/F">>), Stored(<<"/P", "\n", "/E">>)}

InitStore ==
    /\ folder_path = ""
    /\ image_files = <<>>
    /\ current_index = NoIndex
    /\ config \in StoreConfigs
    /\ started = FALSE
    /\ early = 0
    /\ kind = InitKind
    /\ files = InitFiles
    /\ favs = [p \in Paths |-> {}]
    /\ shown = "msg"
    /\ pc = "idle"
    /\ session = NoSession
    /\ mixer_init = FALSE
    /\ playing = FALSE
    /\ windows = {}
    /\ last = Op("init", "")
    /\ pair = NoPair
    /\ nexts = -1

\* The startup callback, and before and after it folders are selected, stepped
\* through and deleted from.
SpecStore == InitStore /\ [][Browse]_vars

-----------------------------------------------------------------------------
(* Claims *)

Positioned == image_files # <<>>

\* The step ends a load that listed its directory
LoadStep ==
    /\ last'.op \in {"load", "startup"}
    /\ last'.res \in {"ok", "unsaved", "unrendered", "empty"}

\* The step lists a directory, or ends a load that did
ListingStep == LoadStep \/ (last'.op = "load" /\ last'.res = "showinfo")

\* The step ends a delete
DeleteStep == last'.op = "delete" /\ last'.res # "askyesno"

\* C1 (as claimed): whenever image_files is non-empty,
\* 0 <= current_index < len(image_files), after any sequence of operations,
\* failed ones included.
C1_CursorInBounds ==
    Positioned => (0 <= current_index /\ current_index < Len(image_files))

\* C2 (as claimed): whenever image_files is empty, current_index is -1.
C2_EmptyCursorIsNoIndex == image_files = <<>> => current_index = NoIndex

\* C3: show_next_image adds exactly 1 below the last index and does nothing at
\* it, show_prev_image subtracts exactly 1 above 0 and does nothing at 0, both
\* do nothing on an empty list and neither changes the list; so the calls in a
\* row counted since index 0 leave the cursor at min(count, len - 1).
C3_NextPrevClamp ==
    /\ [][(last'.op = "next" =>
              /\ image_files' = image_files
              /\ current_index' = IF Positioned /\ current_index < Len(image_files) - 1
                                  THEN current_index + 1 ELSE current_index)
          /\ (last'.op = "prev" =>
              /\ image_files' = image_files
              /\ current_index' = IF Positioned /\ current_index > 0
                                  THEN current_index - 1 ELSE current_index)]_vars
    /\ [](Positioned /\ nexts >= 0 =>
            current_index = Min(nexts, Len(image_files) - 1))

\* C3 witness: as many show_next_image calls as there are entries, counted
\* from index 0 of a list of at least two, the last of them a no-op.
C3_Witness ==
    /\ last.op = "next" /\ last.res = "stay"
    /\ Len(image_files) >= 2
    /\ nexts = Len(image_files)

\* C4 (as claimed): a successful delete called at cursor c on the entry named
\* n leaves the list without n, the others in order, and the directory
\* without the file n; the cursor becomes c - 1 if c was the last index and
\* entries remain, and otherwise stays c, on the entry formerly at c + 1.
C4_DeleteRemovesCurrent ==
    [][last'.op = "delete" /\ last'.res = "ok" =>
        /\ Len(image_files') = Len(image_files) - 1
        /\ \A i \in 1..Len(image_files') :
              image_files'[i] = IF i <= current_index THEN image_files[i]
                                ELSE image_files[i + 1]
        /\ image_files[current_index + 1] = last'.name
        /\ last'.name \in files[folder_path]
        /\ files' = [files EXCEPT ![folder_path] = @ \ {last'.name}]
        /\ IF current_index = Len(image_files) - 1 /\ image_files' # <<>>
           THEN current_index' = current_index - 1
           ELSE /\ current_index' = current_index
                /\ (image_files' # <<>> =>
                      image_files'[current_index' + 1] = image_files[current_index + 2])]_vars

\* C5 (as claimed): a load that fails leaves folder_path, image_files and
\* current_index as they were.
C5_FailedLoadKeepsState ==
    [][last'.op = "load" /\ last'.res = "fail" =>
        /\ folder_path' = folder_path
        /\ image_files' = image_files
        /\ current_index' = current_index]_vars

\* C6 (as claimed): a successful load leaves the listing of the directory it
\* was given as the list, with cursor -1 if that is empty and cursor 0
\* otherwise, whatever the list and cursor were.
C6_LoadReplaces ==
    [][LoadStep =>
        /\ image_files' = Scan(files[folder_path'])
        /\ \A i \in 1..Len(image_files') : image_files'[i] \in files'[folder_path']
        /\ (image_files' = <<>> => current_index' = NoIndex)
        /\ (image_files' # <<>> => current_index' = 0)]_vars

\* C7 (as claimed): when play_video hands control back after a session that
\* opened the source, the capture is released, the window destroyed, the mixer
\* not initialised and no temporary audio file left.
C7_TeardownOnEveryExit ==
    pc = "returned" =>
        /\ ~session.cap_open
        /\ session.filename \notin windows
        /\ ~mixer_init
        /\ ~playing
        /\ ~session.temp_exists

\* C8: after two add_to_favorites calls in a row on one entry, both without
\* I/O failure, is_favorited is what it was before the first, and the two
\* calls were one copy and one delete, the delete first iff it was a favorite.
C8_ToggleTwice ==
    pair.set =>
        /\ is_favorited(Current) = pair.pre
        /\ {pair.first, pair.second} = {"copy", "remove"}
        /\ pair.first = IF pair.pre THEN "remove" ELSE "copy"

\* C8 witness: two toggles in a row on an entry that was a favorite.
C8_Witness == pair.set /\ pair.pre /\ last.op = "toggle"

\* C9 (as claimed): every load that lists its directory, an empty listing
\* included, leaves the config file holding exactly its path, and nothing else
\* changes the file. A load whose write of the file failed is left out of the
\* statement.
C9_ConfigIsLastLoaded ==
    [][IF LoadStep
       THEN last'.res # "unsaved" => config' = Stored(<<folder_path'>>)
       ELSE config' = config]_vars

FailedAudio == {"mixer_fail", "temp_fail", "run_raise", "no_audio", "load_fail", "play_fail"}

\* C10: whichever way audio extraction fails, the session goes on to the frame
\* loop at the first frame with its capture and its window open, it starts no
\* music then or later (has_audio is false, and music plays after a step only
\* if it played before it), and the loop can always take its next step.
C10_AudioFailureNotFatal ==
    /\ [][pc = "audio" /\ session'.audio \in FailedAudio =>
            /\ pc' = "loop"
            /\ session'.frame = 0
            /\ session'.cap_open /\ session'.filename \in windows'
            /\ ~session'.has_audio
            /\ (playing' => playing)]_vars
    /\ [][(pc \in {"loop", "cleanup"} /\ session.audio \in FailedAudio) =>
            /\ ~session'.has_audio
            /\ (playing' => playing)]_vars
    /\ [](pc \in {"cleanup", "returned"} /\ session.audio \in FailedAudio =>
            session.exit \in {"eos", "quit", "closed", "exception"})

\* C10 witness: ffmpeg could not be run, and the loop still presented every
\* frame up to the end of the stream.
C10_Witness ==
    /\ pc = "cleanup"
    /\ session.audio = "run_raise"
    /\ session.exit = "eos"
    /\ session.frame = MaxFrames

\* image_files' is image_files with one element taken out, the rest in order
OneRemoved ==
    \E i \in 1..Len(image_files) :
        image_files' = SubSeq(image_files, 1, i - 1) \o SubSeq(image_files, i + 1, Len(image_files))

\* A step of play_video: its call, a stage of the session, its return
PlayStep ==
    \/ last'.op = "play"
    \/ pc \in {"audio", "loop", "cleanup"}
    \/ pc = "returned" /\ pc' = "idle"

\* C11: add_to_favorites (copy, remove or I/O error) and every step of
\* play_video (guards, audio, frames, cancel, exception, cleanup, return) leave
\* image_files and current_index as they were; the cursor changes only in a
\* load (the startup callback is one, also when it runs inside a dialog of
\* another handler), next, previous or delete; and outside a load that listed
\* a directory the list stays the same or loses one element, the others
\* keeping their order.
C11_ListAndCursorFrame ==
    [][/\ (last'.op = "toggle" \/ PlayStep) =>
              (image_files' = image_files /\ current_index' = current_index)
       /\ (current_index' # current_index =>
              last'.op \in {"load", "startup", "next", "prev", "delete"})
       /\ (~ListingStep => (image_files' = image_files \/ OneRemoved))]_vars

\* C11 witness: a toggle on the second entry of two failed with an I/O error.
C11_Witness ==
    /\ last.op = "toggle" /\ last.res = "error"
    /\ Len(image_files) = 2
    /\ current_index = 1

\* The step was a load, next, previous or delete that called display_image
Rendered ==
    \/ last'.op \in {"load", "startup"} /\ last'.res \in {"ok", "unsaved", "unrendered"}
    \/ last'.op \in {"next", "prev"} /\ last'.res = "moved"
    \/ last'.op = "delete" /\ last'.res = "ok" /\ image_files' # <<>>

\* What a next, previous or delete does to list, cursor and directory,
\* whatever the preview shows
NormalStep ==
    /\ (last'.op = "next" =>
          /\ image_files' = image_files
          /\ current_index' = IF Positioned /\ current_index < Len(image_files) - 1
                              THEN current_index + 1 ELSE current_index)
    /\ (last'.op = "prev" =>
          /\ image_files' = image_files
          /\ current_index' = IF Positioned /\ current_index > 0
                              THEN current_index - 1 ELSE current_index)
    /\ (last'.op = "delete" /\ last'.res = "ok" =>
          /\ image_files' = SubSeq(image_files, 1, current_index)
                               \o SubSeq(image_files, current_index + 2, Len(image_files))
          /\ files' = [files EXCEPT ![folder_path] = @ \ {image_files[current_index + 1]}]
          /\ current_index' = IF current_index = Len(image_files) - 1 /\ image_files' # <<>>
                              THEN current_index - 1 ELSE current_index)
    /\ (last'.op = "delete" /\ last'.res # "ok" =>
          /\ image_files' = image_files
          /\ current_index' = current_index
          /\ files' = files)

\* C12 (as claimed): when a load, next, previous or delete renders an entry that cannot be
\* decoded, the label shows the error and the step still does all a successful
\* render lets it do (the load sets list and cursor and saves the folder, next
\* and previous move the cursor, delete removes file and entry); and with the
\* error showing, next, previous and delete do what they always do.
C12_RenderErrorLocalized ==
    [][/\ (Rendered /\ image_files'[current_index' + 1] \in Corrupt =>
              /\ shown' = "err"
              /\ NormalStep
              /\ (last'.op \in {"load", "startup"} =>
                    /\ image_files' = Scan(files[folder_path'])
                    /\ current_index' = 0
                    /\ (last'.res # "unsaved" => config' = Stored(<<folder_path'>>))))
       /\ (shown = "err" => NormalStep)]_vars

\* The extensions the claim lists
ClaimedExtensions ==
    { <<".", "p", "n", "g">>, <<".", "j", "p", "g">>, <<".", "j", "p", "e", "g">>,
      <<".", "g", "i", "f">>, <<".", "b", "m", "p">>, <<".", "h", "e", "i", "c">>,
      <<".", "m", "o", "v">> }

\* C13: after a load, image_files holds exactly the children of the directory
\* whose lower-cased name ends with a listed extension, in strictly ascending
\* order (so each once); and a load that follows a load of the same unchanged
\* directory yields the same list.
C13_ScanExact ==
    /\ [](last.op = "load" =>
            /\ \A f \in files[folder_path] :
                  (\E x \in ClaimedExtensions : EndsWith(Lower(f), x))
                     <=> (\E i \in 1..Len(image_files) : image_files[i] = f)
            /\ \A i \in 1..Len(image_files) : image_files[i] \in files[folder_path]
            /\ \A i \in 1..Len(image_files) : \A j \in 1..Len(image_files) :
                  i < j => StrLess(image_files[i], image_files[j]))
    /\ [][last.op = "load" /\ last'.op = "load" /\ folder_path' = folder_path
             /\ files' = files => image_files' = image_files]_vars

\* C13 witness: D.MOV, a.Mov and a.jpg listed in code point order, n.txt left out.
C13_Witness ==
    /\ last.op = "load"
    /\ files[folder_path] = {a_jpg, a_Mov, n_txt, D_MOV}
    /\ image_files = <<D_MOV, a_Mov, a_jpg>>

\* The step is a toggle of the current entry that comes right after another
\* program added or removed a mirror
ToggleAfterExternal == last.op = "external" /\ last'.op = "toggle" /\ last'.res # "noop"

\* C14 (as claimed): a toggle that comes right after another program added or
\* removed a mirror reads the file system as it is then: it takes the delete
\* branch iff the mirror of the current entry exists at the call
\* (is_favorited says so) and the copy branch iff it does not, and after the
\* toggle the mirror exists iff it did not exist before the call.
C14_FavoriteNotCached ==
    [][ToggleAfterExternal =>
        /\ last'.pre = (image_files[current_index + 1] \in favs[folder_path])
        /\ (last'.pre => last'.res \in {"remove", "error"})
        /\ (~last'.pre => last'.res \in {"copy", "error"})
        /\ (image_files[current_index + 1] \in favs'[folder_path])
              = ~(image_files[current_index + 1] \in favs[folder_path])]_vars

\* C14 (amended): such a toggle takes the delete branch iff the mirror of the
\* current entry exists at the call and the copy branch iff it does not;
\* when its delete or copy does not fail, the mirror exists afterwards iff it
\* did not exist before the call; a failed delete leaves the favorites as
\* they were, and a failed copy leaves them as they were or with the mirror
\* of the current entry added (the copy failed after creating it). No other
\* mirror changes.
C14_ToggleReadsDisk ==
    [][ToggleAfterExternal =>
        /\ last'.pre = (image_files[current_index + 1] \in favs[folder_path])
        /\ (last'.pre => last'.res \in {"remove", "error"})
        /\ (~last'.pre => last'.res \in {"copy", "error"})
        /\ (last'.res = "remove" =>
              favs' = [favs EXCEPT ![folder_path] = @ \ {image_files[current_index + 1]}])
        /\ (last'.res = "copy" =>
              favs' = [favs EXCEPT ![folder_path] = @ \cup {image_files[current_index + 1]}])
        /\ (last'.res # "error" =>
              (image_files[current_index + 1] \in favs'[folder_path])
                 = ~(image_files[current_index + 1] \in favs[folder_path]))
        /\ (last'.res = "error" /\ last'.pre => favs' = favs)
        /\ (last'.res = "error" /\ ~last'.pre =>
              \/ favs' = favs
              \/ favs' = [favs EXCEPT ![folder_path] =
                                @ \cup {image_files[current_index + 1]}])]_vars

\* C14 witness: another program added the mirror of the current entry, and
\* the toggle that followed removed it.
C14_Witness ==
    /\ last.op = "toggle" /\ last.res = "remove"
    /\ pair.first = "external"
    /\ pair.pre
    /\ ~is_favorited(Current)

\* C15 (as claimed): for every frame rate the decoder reports, the interval
\* each frame of the loop waits for, cv2.waitKey(delay), is positive, so that
\* every wait ends by itself and the loop reaches the end of the stream
\* without any input.
C15_PositiveFrameInterval == pc = "loop" => session.delay > 0

\* C16 (as claimed): when the audio block is left, the session has started
\* music iff ffmpeg exited with 0 and the extracted file is not empty.
C16_AudioIffExtracted ==
    [][pc = "audio" /\ pc' # "audio" =>
        (session'.has_audio <=> (session'.returncode = 0 /\ session'.getsize > 0))]_vars

\* C16 (amended): when the audio block is left, the session has started music
\* iff ffmpeg exited with 0, the extracted file is not empty and pygame loaded
\* and started it without raising; music it started is playing, and if it
\* started none, music plays only if it played before; that moment is after
\* ffmpeg returned and before the first cap.read(), and no music is started in
\* the frame loop or the cleanup.
C16_AudioStartedBeforeLoop ==
    /\ [][pc = "audio" /\ pc' # "audio" =>
            /\ session'.has_audio <=> (/\ session'.returncode = 0
                                       /\ session'.getsize > 0
                                       /\ session'.audio \notin {"load_fail", "play_fail"})
            /\ (session'.has_audio => playing')
            /\ (~session'.has_audio => (playing' => playing))
            /\ pc' = "loop"
            /\ session'.frame = 0]_vars
    /\ [][(pc \in {"loop", "cleanup"}) =>
            /\ session'.has_audio = session.has_audio
            /\ (playing' => playing)]_vars

\* C16 witness: the extracted audio is playing while the second frame is due.
C16_Witness ==
    /\ pc = "loop"
    /\ session.has_audio /\ playing
    /\ session.returncode = 0 /\ session.getsize > 0
    /\ session.frame = 1

\* C17: an iteration of the frame loop leaves the loop when cap.read() gives no
\* frame (nothing is presented), when waitKey returned 'q', or when the window
\* is found closed after the wait (in both the frame of the iteration was
\* presented before); it stays in the loop only if none of these happened and
\* then exactly one more frame has been presented; once the loop is left no
\* further frame is presented, and never more frames than the source holds.
C17_LoopExits ==
    /\ [][pc = "loop" =>
            /\ (pc' = "loop" =>
                  /\ session'.frame = session.frame + 1
                  /\ ~session'.q_pressed
                  /\ session.filename \in windows'
                  /\ session'.exit = "")
            /\ (session'.exit = "eos" =>
                  pc' = "cleanup" /\ session'.frame = session.frame)
            /\ (session'.exit = "quit" =>
                  /\ pc' = "cleanup"
                  /\ session'.q_pressed
                  /\ session'.frame = session.frame + 1)
            /\ (session'.exit = "closed" =>
                  /\ pc' = "cleanup"
                  /\ ~session'.q_pressed /\ session.filename \notin windows'
                  /\ session'.frame = session.frame + 1)]_vars
    /\ [][pc = "cleanup" => session'.frame = session.frame /\ pc' = "returned"]_vars
    /\ [](session.frame <= MaxFrames)

\* C17 witness: the first frame was presented and waited for, and 'q' was
\* pressed during the wait of the second.
C17_Witness ==
    /\ pc = "cleanup"
    /\ session.exit = "quit"
    /\ session.q_pressed
    /\ session.frame = 2

\* The step is the call of play_video: its guards and the opening of the source
PlayCall == pc = "idle" /\ last'.op = "play" /\ last'.res # "returned"

\* C18: a call of play_video leaves the idle state only with a cursor on an
\* entry whose lower-cased name ends with .mov, and on every such entry it
\* goes on to open the decoder; with an empty list (also one emptied by
\* deleting its last entry, the cursor then being 0) or on any other entry
\* the call changes nothing: no capture, no window, no mixer, no temporary
\* file.
C18_PlayOnlyVideo ==
    [][PlayCall =>
        /\ (pc' # "idle" =>
              /\ Positioned
              /\ 0 <= current_index /\ current_index < Len(image_files)
              /\ EndsWith(Lower(image_files[current_index + 1]), <<".", "m", "o", "v">>)
              /\ session'.cap_open)
        /\ (Positioned /\ current_index >= 0
               /\ EndsWith(Lower(image_files[current_index + 1]), <<".", "m", "o", "v">>)
              => last'.res \in {"opened", "cannot_open"})
        /\ (~Positioned \/ current_index < 0
               \/ ~EndsWith(Lower(image_files[current_index + 1]), <<".", "m", "o", "v">>)
              => /\ pc' = "idle"
                 /\ session' = NoSession
                 /\ UNCHANGED <<folder_path, image_files, current_index, config, kind,
                                files, favs, shown, mixer_init, playing, windows>>)]_vars

\* C18 witness: play_video was called on the list that the delete of its last
\* remaining entry had emptied, and nothing was opened.
C18_Witness ==
    /\ last = Op("play", "noop")
    /\ image_files = <<>>
    /\ current_index = 0
    /\ pc = "idle" /\ session = NoSession /\ ~mixer_init /\ windows = {}

\* C19 (as claimed): a delete that the user declines or whose os.remove fails
\* (and one with nothing to delete) leaves image_files, current_index and the
\* directories as they were; and whatever a delete takes out of the list is a
\* name whose file was in the directory before and is not there after.
C19_DeleteOnlyAfterRemove ==
    [][DeleteStep =>
        /\ (last'.res # "ok" =>
              /\ image_files' = image_files
              /\ current_index' = current_index
              /\ files' = files
              /\ kind' = kind)
        /\ \A i \in 1..Len(image_files) :
              (\A j \in 1..Len(image_files') : image_files'[j] # image_files[i]) =>
                  /\ image_files[i] \in files[folder_path]
                  /\ image_files[i] \notin files'[folder_path]]_vars

\* C20: a delete, successful or not, leaves the favorites folder of every
\* directory as it is, so the mirror of a favorite outlives its source file;
\* what it removes is the one file whose name it read, and nothing else of
\* any directory.
C20_DeleteKeepsMirror ==
    [][last'.op = "delete" =>
        /\ favs' = favs
        /\ kind' = kind
        /\ (last'.res \in {"ok", "pop_error"} =>
              \E p \in Paths :
                 /\ last'.name \in files[p]
                 /\ files' = [files EXCEPT ![p] = @ \ {last'.name}])
        /\ (last'.res \notin {"ok", "pop_error"} => files' = files)]_vars

\* C20 witness: b.mov was made a favorite and deleted; favorites/b.mov is
\* there, the list is [a.jpg, c.png] with the cursor on c.png.
C20_Witness ==
    /\ last.op = "delete" /\ last.res = "ok" /\ last.name = b_mov
    /\ image_files = <<a_jpg, c_png>>
    /\ current_index = 1
    /\ b_mov \in favs[folder_path]
    /\ b_mov \notin files[folder_path]

\* C21 (as claimed): a load of a directory with supported files whose save of
\* the folder fails still sets the list to the listing of the new active
\* directory, the cursor to 0 and renders the first entry; the config file is
\* as it was before; and the next, previous, toggle or delete that follows
\* does what it always does and leaves the config file alone.
C21_SaveFailureKeepsStore ==
    [][/\ (last'.op \in {"load", "startup"} /\ last'.res = "unsaved" =>
              /\ Kind(folder_path') = "dir"
              /\ image_files' = Scan(files[folder_path'])
              /\ image_files' # <<>>
              /\ current_index' = 0
              /\ shown' \in {"img", "err", "blank"}
              /\ config' = config)
       /\ (last.op \in {"load", "startup"} /\ last.res = "unsaved"
            /\ last'.op \in {"next", "prev", "delete", "toggle"} =>
              /\ NormalStep
              /\ config' = config
              /\ (last'.op = "toggle" =>
                    image_files' = image_files /\ current_index' = current_index))]_vars

\* The config file exists and its text is the path p with nothing but white
\* space around it
StoreNames(p) ==
    /\ config.exists
    /\ \E i \in 1..Len(config.content) :
          /\ config.content[i] = p
          /\ \A j \in 1..Len(config.content) : j # i => config.content[j] = "\n"

\* The startup callback did not load
NoLoad == {"skip", "unreadable", "undecodable"}

\* An exception left the startup callback: UnicodeDecodeError from f.read(),
\* or TclError from image_label
StartupRaised == last'.res = "undecodable" \/ last'.tcl

\* C22 (as claimed): the startup callback loads a folder only if the config
\* file exists, was read and names a directory that exists, and then it
\* leaves what a load of that directory leaves (its listing, cursor 0 or -1,
\* the folder, the label as display_image or show_message sets it, the path
\* saved unless the save fails, the listing is empty or the render raised);
\* it does so whenever the file names such a directory and can be read; in
\* every other case, a file that cannot be read or decoded included, nothing
\* is raised and folder, list, cursor, label, config file and directories
\* stay as they are, which is as __init__ left them when no handler ran
\* before the callback.
C22_StartupAppliesStore ==
    [][last'.op = "startup" =>
        /\ (last'.res \notin NoLoad =>
              \E p \in Paths :
                 /\ StoreNames(p)
                 /\ kind[p] = "dir"
                 /\ folder_path' = p
                 /\ image_files' = Scan(files[p])
                 /\ current_index' = IF image_files' = <<>> THEN NoIndex ELSE 0
                 /\ shown' = Label(IF image_files' = <<>> THEN "msg"
                                   ELSE IF image_files'[1] \in Corrupt THEN "err"
                                   ELSE "img")
                 /\ (image_files' = <<>>) = (last'.res = "empty")
                 /\ (last'.res = "ok" => config' = Stored(<<p>>))
                 /\ (last'.res \in {"empty", "unrendered"} => config' = config))
        /\ ((\E p \in Paths : StoreNames(p) /\ kind[p] = "dir") =>
              last'.res # "skip")
        /\ (last'.res \in {"unreadable", "undecodable"} => config.exists)
        /\ (last'.res \in NoLoad =>
              /\ ~StartupRaised
              /\ UNCHANGED <<folder_path, image_files, current_index, shown, config,
                             files, kind, favs>>
              /\ (last.op = "init" =>
                    /\ folder_path' = ""
                    /\ image_files' = <<>>
                    /\ current_index' = NoIndex
                    /\ shown' = "msg"))]_vars

====
